---- MODULE Spec2Model ----
(***************************************************************************)
(* Model of wav_analysis (src/src/main.rs): a folder of .wav / .f files is *)
(* scanned into spectra (PlotData), the GUI recomputes the average         *)
(* spectrum on every frame and writes it to average_plot.f on request.     *)
(*                                                                         *)
(* Abstractions, stated once:                                              *)
(*  - f32 values are exact rationals <<num, den>> in lowest terms, so      *)
(*    rounding is not modelled;                                            *)
(*  - strings are sequences of character codes;                            *)
(*  - a bincode record is a sequence of integer cells: one cell per u64    *)
(*    length prefix, two cells (num, den) per f32, one cell per byte of a  *)
(*    string;                                                              *)
(*  - the samples of a .wav file are taken from the family                 *)
(*    <<a, b, b, ..., b>>, whose discrete Fourier transform is known       *)
(*    exactly: X[0] = sum of the samples, X[k] = a - b for k > 0;          *)
(*  - the frequency sliders and the plotted points are left out: they do   *)
(*    not feed back into plots, avg_plot or the written file.              *)
(***************************************************************************)
EXTENDS Integers, Sequences, FiniteSets, TLC

VARIABLES
    folder,     \* the directory entries in read_dir order
    pos,        \* number of entries main's loop has consumed
    plots,      \* Vec<PlotData> built by main, then MyApp.plots
    avg_plot,   \* MyApp.avg_plot
    phase,      \* "scan" (main's loop), "gui" (run_native), "done" (main returned)
    result,     \* what main returned: "none" | "ok" | "err"
    stderr,     \* lines written with eprintln!
    frame,      \* 0 until the first update frame has run, 1 afterwards
    outFile,    \* average_plot.f: [exists, bytes]
    saved,      \* history: the PlotData handed to bincode::serialize by the last save
    pushLog,    \* history: <<i, position>> of every push of the last average pass
    run         \* 1 in the first process run, 2 in every later one

vars == <<folder, pos, plots, avg_plot, phase, result, stderr, frame, outFile,
          saved, pushLog, run>>

(***************************** bounds **************************************)
MaxFiles == 2
MaxSamples == 8
MaxBins == 2

(***************************** strings *************************************)
ExtWav == <<46, 119, 97, 118>>                 \* ".wav"
ExtF == <<46, 102>>                            \* ".f"
ExtOther == <<46, 109, 112, 51>>               \* ".mp3"
LabelAverage == <<97, 118, 101, 114, 97, 103, 101>>     \* "average"
OutPath == <<97, 118, 101, 114, 97, 103, 101, 95, 112, 108, 111, 116, 46, 102>>
                                               \* "average_plot.f"
MsgUnsupported == "Unsupported file format"

EndsWith(s, suffix) ==
    /\ Len(s) >= Len(suffix)
    /\ SubSeq(s, Len(s) - Len(suffix) + 1, Len(s)) = suffix

(***************************** f32 as rationals ****************************)
Abs(x) == IF x < 0 THEN -x ELSE x

RECURSIVE Gcd(_, _)
Gcd(a, b) == IF b = 0 THEN a ELSE Gcd(b, a % b)

\* the rational n/d (d > 0) in lowest terms
Q(n, d) == LET g == Gcd(Abs(n), d) IN <<n \div g, d \div g>>

FromInt(n) == <<n, 1>>
AddQ(x, y) == Q(x[1] * y[2] + y[1] * x[2], x[2] * y[2])
DivQ(x, n) == Q(x[1], x[2] * n)
MulQ(x, n) == Q(x[1] * n, x[2])
LtQ(x, y) == x[1] * y[2] < y[1] * x[2]

(***************************** PlotData ************************************)
PlotData(freqs, amplitudes, file_name) ==
    [freqs |-> freqs, amplitudes |-> amplitudes, file_name |-> file_name]

DefaultPlotData == PlotData(<<>>, <<>>, <<>>)

(***************************** bincode *************************************)
RECURSIVE EncodeF32s(_)
EncodeF32s(v) ==
    IF v = <<>> THEN <<>> ELSE <<Head(v)[1], Head(v)[2]>> \o EncodeF32s(Tail(v))

EncodeVec(v) == <<Len(v)>> \o EncodeF32s(v)
EncodeString(s) == <<Len(s)>> \o s

Serialize(p) ==
    EncodeVec(p.freqs) \o EncodeVec(p.amplitudes) \o EncodeString(p.file_name)

\* Decoders read at cell index `at` (1-based) and return [ok, value, next].
DecodeFail == [ok |-> FALSE, value |-> <<>>, next |-> 0]

DecodeVec(bytes, at) ==
    IF at > Len(bytes) THEN DecodeFail
    ELSE LET n == bytes[at] IN
         IF at + 2 * n > Len(bytes) THEN DecodeFail
         ELSE [ok |-> TRUE,
               value |-> [i \in 1..n |-> <<bytes[at + 2 * i - 1], bytes[at + 2 * i]>>],
               next |-> at + 2 * n + 1]

DecodeString(bytes, at) ==
    IF at > Len(bytes) THEN DecodeFail
    ELSE LET n == bytes[at] IN
         IF at + n > Len(bytes) THEN DecodeFail
         ELSE [ok |-> TRUE,
               value |-> SubSeq(bytes, at + 1, at + n),
               next |-> at + n + 1]

Deserialize(bytes) ==
    LET f == DecodeVec(bytes, 1) IN
    IF ~f.ok THEN [ok |-> FALSE, value |-> DefaultPlotData]
    ELSE LET a == DecodeVec(bytes, f.next) IN
         IF ~a.ok THEN [ok |-> FALSE, value |-> DefaultPlotData]
         ELSE LET s == DecodeString(bytes, a.next) IN
              IF ~s.ok THEN [ok |-> FALSE, value |-> DefaultPlotData]
              ELSE [ok |-> TRUE, value |-> PlotData(f.value, a.value, s.value)]

\* variant of read_f: the two vectors are returned in the wrong order
read_f_swapped(entry) ==
    LET d == Deserialize(entry.bytes) IN
    IF ~d.ok THEN [ok |-> FALSE, freqs |-> <<>>, amplitudes |-> <<>>]
    ELSE [ok |-> TRUE, freqs |-> d.value.amplitudes, amplitudes |-> d.value.freqs]

(***************************** read_f **************************************)
\* Ok((freqs, amplitudes)) or Err: the stored file_name is dropped.
read_f(entry) ==
    LET d == Deserialize(entry.bytes) IN
    IF ~d.ok THEN [ok |-> FALSE, freqs |-> <<>>, amplitudes |-> <<>>]
    ELSE [ok |-> TRUE, freqs |-> d.value.freqs, amplitudes |-> d.value.amplitudes]

(***************************** read_wav ************************************)
\* Ok((samples, sample_rate)) or Err when the file cannot be opened/parsed.
read_wav(entry) ==
    [ok |-> entry.readable, samples |-> entry.samples, sample_rate |-> entry.rate]

(***************************** fourier_analysis ****************************)
RECURSIVE SumSeq(_)
SumSeq(s) == IF s = <<>> THEN 0 ELSE Head(s) + SumSeq(Tail(s))

\* fft.process on the buffer of Complex::new(s, 0.0): the exact transform of
\* a signal <<a, b, ..., b>>, as [re, im] pairs; a zero-length plan is a no-op.
FftProcess(samples) ==
    [k \in 1..Len(samples) |->
        IF k = 1 THEN [re |-> SumSeq(samples), im |-> 0]
        ELSE [re |-> samples[1] - samples[2], im |-> 0]]

\* Complex::norm for the purely real outputs above
Norm(c) == Abs(c.re)

\* variant of BinFrequencies: divides by the number of retained bins
BinFrequenciesHalfN(buffer, samples, sample_rate) ==
    [j \in 1..(Len(buffer) \div 2) |->
        Q((j - 1) * sample_rate, Len(samples) \div 2)]

BinFrequencies(buffer, samples, sample_rate) ==
    [j \in 1..(Len(buffer) \div 2) |-> Q((j - 1) * sample_rate, Len(samples))]

\* variant of BinAmplitudes: the take(buffer.len() / 2) is missing
BinAmplitudesWhole(buffer) ==
    [j \in 1..Len(buffer) |-> FromInt(Norm(buffer[j]))]

BinAmplitudes(buffer) ==
    [j \in 1..(Len(buffer) \div 2) |-> FromInt(Norm(buffer[j]))]

fourier_analysis(samples, sample_rate) ==
    LET buffer == FftProcess(samples) IN
    [freqs |-> BinFrequencies(buffer, samples, sample_rate),
     amplitudes |-> BinAmplitudes(buffer)]

(***************************** the average pass ****************************)
\* variant of AddAmp: a missing index is inserted at the front
AddAmpInsertFront(st, i, amp) ==
    IF i < Len(st.acc)
    THEN [acc |-> [st.acc EXCEPT ![i + 1] = AddQ(@, amp)], pushed |-> st.pushed]
    ELSE [acc |-> <<amp>> \o st.acc,
          pushed |-> st.pushed \cup {<<i, 0>>}]

\* One step of the inner loop: st = [acc, pushed], i is the 0-based index.
\* get_mut(i) is Some exactly when i < acc.len(); otherwise amp is pushed,
\* and lands at position acc.len().
AddAmp(st, i, amp) ==
    IF i < Len(st.acc)
    THEN [acc |-> [st.acc EXCEPT ![i + 1] = AddQ(@, amp)], pushed |-> st.pushed]
    ELSE [acc |-> Append(st.acc, amp),
          pushed |-> st.pushed \cup {<<i, Len(st.acc)>>}]

\* for (i, &amp) in plot_data.amplitudes.iter().enumerate()
RECURSIVE AddPlot(_, _, _)
AddPlot(st, amplitudes, i) ==
    IF i >= Len(amplitudes) THEN st
    ELSE AddPlot(AddAmp(st, i, amplitudes[i + 1]), amplitudes, i + 1)

\* for plot_data in &self.plots
RECURSIVE Accumulate(_, _, _)
Accumulate(st, ps, k) ==
    IF k > Len(ps) THEN st
    ELSE Accumulate(AddPlot(st, ps[k].amplitudes, 0), ps, k + 1)

\* variant of DivideAll: divides by the number of bins
DivideAllByBins(acc, count) == [i \in 1..Len(acc) |-> DivQ(acc[i], Len(acc))]

\* avg_amplitudes.iter_mut().for_each(|amp| *amp /= self.plots.len() as f32)
DivideAll(acc, count) == [i \in 1..Len(acc) |-> DivQ(acc[i], count)]

\* the accumulator starts as vec![0.0; self.plots[0].amplitudes.len()]
AveragePass(ps) ==
    LET zero == [i \in 1..Len(ps[1].amplitudes) |-> FromInt(0)]
        st == Accumulate([acc |-> zero, pushed |-> {}], ps, 1)
    IN  [amplitudes |-> DivideAll(st.acc, Len(ps)), pushed |-> st.pushed]

\* variant of NewAverage: the plots.len() > 0 test is missing
NewAverageUnguarded(ps, old) ==
    PlotData(IF Len(ps) > 0 THEN ps[1].freqs ELSE <<>>,
             IF Len(ps) > 0 THEN AveragePass(ps).amplitudes ELSE <<>>,
             LabelAverage)

\* the value of self.avg_plot at the end of a frame
NewAverage(ps, old) ==
    IF Len(ps) > 0
    THEN PlotData(ps[1].freqs, AveragePass(ps).amplitudes, LabelAverage)
    ELSE old

(***************************** directory entries ***************************)
\* recordings: a sample rate and the values <<a, b>> of the signal <<a, b, ..., b>>
WavKinds == {[rate |-> 8000, shape |-> <<3, 1>>], [rate |-> 44100, shape |-> <<-2, 1>>]}
RampScales == {1, 2}

Signal(n, shape) == [i \in 1..n |-> IF i = 1 THEN shape[1] ELSE shape[2]]

RECURSIVE Pow2(_)
Pow2(n) == IF n = 0 THEN 1 ELSE 2 * Pow2(n - 1)

\* a cached spectrum as the save button writes it: bins at multiples of 1000
CachedSpectrum(n, c) ==
    PlotData([i \in 1..n |-> FromInt((i - 1) * 1000)],
             [i \in 1..n |-> FromInt(c * Pow2(i - 1) * 2)],
             LabelAverage)

Content(ext, readable, samples, rate, bytes) ==
    [ext |-> ext, readable |-> readable, samples |-> samples, rate |-> rate,
     bytes |-> bytes]

WavContents ==
    {Content(ExtWav, TRUE, Signal(n, w.shape), w.rate, <<>>) :
        n \in 0..MaxSamples, w \in WavKinds}
    \cup {Content(ExtWav, FALSE, <<>>, 8000, <<>>)}

FContents ==
    {Content(ExtF, TRUE, <<>>, 0, Serialize(CachedSpectrum(n, c))) :
        n \in 0..MaxBins, c \in RampScales}
    \cup {Content(ExtF, TRUE, <<>>, 0, <<1>>)}          \* a truncated record

OtherContents == {Content(ExtOther, TRUE, <<>>, 0, <<>>)}

Contents == WavContents \cup FContents \cup OtherContents

\* the k-th entry of the folder is named by its position
DirEntry(path, c) ==
    [path |-> path, readable |-> c.readable, samples |-> c.samples,
     rate |-> c.rate, bytes |-> c.bytes]

Folder(cs) == [k \in 1..Len(cs) |-> DirEntry(<<48 + k>> \o cs[k].ext, cs[k])]

NoFile == [exists |-> FALSE, bytes |-> <<>>]

(***************************** main ****************************************)
Init ==
    /\ \E n \in 0..MaxFiles : \E cs \in [1..n -> Contents] : folder = Folder(cs)
    /\ pos = 0
    /\ plots = <<>>
    /\ avg_plot = DefaultPlotData
    /\ phase = "scan"
    /\ result = "none"
    /\ stderr = <<>>
    /\ frame = 0
    /\ outFile = NoFile
    /\ saved = DefaultPlotData
    /\ pushLog = {}
    /\ run = 1

Scanning == phase = "scan" /\ pos < Len(folder)
Current == folder[pos + 1]
IsWav(e) == EndsWith(e.path, ExtWav)
IsF(e) == ~IsWav(e) /\ EndsWith(e.path, ExtF)

Abort(res) ==
    /\ phase' = "done"
    /\ result' = res
    /\ UNCHANGED <<folder, pos, plots, avg_plot, frame, outFile, saved, pushLog, run>>

Push(freqs, amplitudes) ==
    /\ plots' = Append(plots, PlotData(freqs, amplitudes, Current.path))
    /\ pos' = pos + 1
    /\ UNCHANGED <<folder, avg_plot, phase, result, stderr, frame, outFile, saved,
                   pushLog, run>>

\* variant of ScanWav: an empty sample sequence is turned into an error
ScanWavRejectEmpty ==
    /\ Scanning /\ IsWav(Current)
    /\ LET w == read_wav(Current) IN
        /\ w.ok
        /\ IF w.samples = <<>>
           THEN Abort("err") /\ UNCHANGED stderr
           ELSE LET fa == fourier_analysis(w.samples, w.sample_rate) IN
                    Push(fa.freqs, fa.amplitudes)

ScanWav ==
    /\ Scanning /\ IsWav(Current)
    /\ LET w == read_wav(Current) IN
        /\ w.ok
        /\ LET fa == fourier_analysis(w.samples, w.sample_rate) IN
             Push(fa.freqs, fa.amplitudes)

ScanWavErr ==
    /\ Scanning /\ IsWav(Current)
    /\ ~read_wav(Current).ok
    /\ Abort("err") /\ UNCHANGED stderr

ScanF ==
    /\ Scanning /\ IsF(Current)
    /\ LET r == read_f(Current) IN
        /\ r.ok
        /\ Push(r.freqs, r.amplitudes)

ScanFErr ==
    /\ Scanning /\ IsF(Current)
    /\ ~read_f(Current).ok
    /\ Abort("err") /\ UNCHANGED stderr

ScanUnsupported ==
    /\ Scanning /\ ~IsWav(Current) /\ ~IsF(Current)
    /\ stderr' = Append(stderr, MsgUnsupported)
    /\ Abort("ok")

\* the loop is over: run_native builds MyApp::new(cc, plots)
StartGui ==
    /\ phase = "scan" /\ pos = Len(folder)
    /\ phase' = "gui"
    /\ avg_plot' = DefaultPlotData
    /\ UNCHANGED <<folder, pos, plots, result, stderr, frame, outFile, saved,
                   pushLog, run>>

(***************************** MyApp::update *******************************)
Update(clicked) ==
    /\ phase = "gui"
    /\ IF clicked
       THEN /\ outFile' = [exists |-> TRUE, bytes |-> Serialize(avg_plot)]
            /\ saved' = avg_plot
       ELSE UNCHANGED <<outFile, saved>>
    /\ avg_plot' = NewAverage(plots, avg_plot)
    /\ pushLog' = IF Len(plots) > 0 THEN AveragePass(plots).pushed ELSE pushLog
    /\ frame' = 1
    /\ UNCHANGED <<folder, pos, plots, phase, result, stderr, run>>

\* the window is closed: run_native returns Ok(_)
Close ==
    /\ phase = "gui"
    /\ phase' = "done"
    /\ result' = "ok"
    /\ UNCHANGED <<folder, pos, plots, avg_plot, stderr, frame, outFile, saved,
                   pushLog, run>>

\* run_native returns Err(e) before any frame is shown
GuiError ==
    /\ phase = "gui" /\ frame = 0
    /\ phase' = "done"
    /\ result' = "err"
    /\ UNCHANGED <<folder, pos, plots, avg_plot, stderr, frame, outFile, saved,
                   pushLog, run>>

\* the program is started again on the working directory, which holds the
\* file written by the save button
Rerun ==
    /\ phase = "done" /\ outFile.exists
    /\ folder' = <<DirEntry(OutPath, Content(ExtF, TRUE, <<>>, 0, outFile.bytes))>>
    /\ pos' = 0
    /\ plots' = <<>>
    /\ avg_plot' = DefaultPlotData
    /\ phase' = "scan"
    /\ result' = "none"
    /\ stderr' = <<>>
    /\ frame' = 0
    /\ pushLog' = {}
    /\ run' = 2
    /\ UNCHANGED <<outFile, saved>>

Next ==
    \/ ScanWav
    \/ ScanWavErr
    \/ ScanF
    \/ ScanFErr
    \/ ScanUnsupported
    \/ StartGui
    \/ \E clicked \in BOOLEAN : Update(clicked)
    \/ Close
    \/ GuiError
    \/ Rerun

Spec == Init /\ [][Next]_vars

(***************************** properties *********************************)
\* The per-bin mean as the specification words it, computed without the
\* accumulator: a direct sum over the spectra.
Averaged == phase \in {"gui", "done"} /\ frame >= 1 /\ Len(plots) > 0

Bins(p) == Len(p.amplitudes)

MaxOf(S) == CHOOSE m \in S : \A x \in S : x <= m

LongestBins(ps) == MaxOf({Bins(ps[k]) : k \in 1..Len(ps)})

SameBins(ps) == \A j, k \in 1..Len(ps) : Bins(ps[j]) = Bins(ps[k])

RECURSIVE SumAll(_, _, _)
SumAll(ps, i, k) ==
    IF k > Len(ps) THEN FromInt(0)
    ELSE AddQ(ps[k].amplitudes[i], SumAll(ps, i, k + 1))

RECURSIVE SumHaving(_, _, _)
SumHaving(ps, i, k) ==
    IF k > Len(ps) THEN FromInt(0)
    ELSE IF i <= Bins(ps[k])
         THEN AddQ(ps[k].amplitudes[i], SumHaving(ps, i, k + 1))
         ELSE SumHaving(ps, i, k + 1)

MeanSpectrum(ps) ==
    PlotData(ps[1].freqs,
             [i \in 1..LongestBins(ps) |-> DivQ(SumHaving(ps, i, 1), Len(ps))],
             LabelAverage)

FromWav(k) == k \in 1..Len(plots) /\ IsWav(folder[k])
SampleCount(k) == Len(folder[k].samples)

\* C1: over spectra that all have the same number of bins, every averaged
\* magnitude is the sum of the inputs' magnitudes at that bin divided by the
\* number of inputs; averaging copies of one spectrum returns its magnitudes.
C1_EqualLengthMean ==
    (Averaged /\ SameBins(plots)) =>
        /\ Bins(avg_plot) = Bins(plots[1])
        /\ \A i \in 1..Bins(avg_plot) :
              MulQ(avg_plot.amplitudes[i], Len(plots)) = SumAll(plots, i, 1)
        /\ (\A k \in 1..Len(plots) : plots[k].amplitudes = plots[1].amplitudes)
              => avg_plot.amplitudes = plots[1].amplitudes

C1_Witness ==
    /\ Averaged /\ Len(plots) = 2
    /\ plots[1].amplitudes = <<FromInt(2), FromInt(4)>>
    /\ plots[2].amplitudes = <<FromInt(4), FromInt(8)>>
    /\ avg_plot.amplitudes = <<FromInt(3), FromInt(6)>>

\* C2: over spectra of any lengths in any order, the averaged magnitudes
\* have the length of the longest input, bin i holds the sum over the inputs
\* that have a bin i divided by the number of all inputs, and every pushed
\* index i lands at position i.
C2_UnequalLengthMean ==
    Averaged =>
        /\ Bins(avg_plot) = LongestBins(plots)
        /\ \A i \in 1..Bins(avg_plot) :
              MulQ(avg_plot.amplitudes[i], Len(plots)) = SumHaving(plots, i, 1)
        /\ \A p \in pushLog : p[2] = p[1]

C2_Witness ==
    /\ Averaged /\ Len(plots) = 2
    /\ Bins(plots[1]) = 1 /\ Bins(plots[2]) >= 3
    /\ Cardinality(pushLog) >= 2

\* C3: every Spectrum the program holds (each loaded one and the average)
\* has as many frequencies as magnitudes.
C3_FrequenciesMatchMagnitudes ==
    /\ \A k \in 1..Len(plots) : Len(plots[k].freqs) = Len(plots[k].amplitudes)
    /\ Len(avg_plot.freqs) = Len(avg_plot.amplitudes)

\* C4 (as claimed): loading the saved record through the load path yields
\* the saved Spectrum field for field, label included.
C4_RoundTripExact ==
    [][(Scanning /\ Current.path = OutPath) =>
            plots' = Append(plots, saved)]_vars

\* C4 (amended): loading the saved record through the load path succeeds and
\* yields the saved frequencies and magnitudes; the label is the path of the
\* file that was read, not the saved label.
C4_RoundTripData ==
    [][(Scanning /\ Current.path = OutPath) =>
            plots' = Append(plots, PlotData(saved.freqs, saved.amplitudes, OutPath))]_vars

C4_Witness ==
    /\ run > 1 /\ Len(plots) = 1
    /\ plots[1].file_name = OutPath
    /\ saved.file_name = LabelAverage
    /\ Bins(plots[1]) >= 2
    /\ plots[1].amplitudes = saved.amplitudes

\* C5: whenever the save action is triggered while at least one spectrum is
\* loaded, the record written is the current average of the loaded spectra:
\* their per-bin mean, the first spectrum's frequencies, the label "average".
C5_SaveWritesCurrentAverage ==
    [][(Update(TRUE) /\ Len(plots) > 0) =>
            outFile' = [exists |-> TRUE, bytes |-> Serialize(MeanSpectrum(plots))]]_vars

\* C6 (as claimed): the average over no spectra reports an error.
C6_EmptyAverageFails ==
    (phase \in {"gui", "done"} /\ frame >= 1 /\ plots = <<>>) => result = "err"

\* C6 (amended): the average over no spectra is skipped without any error:
\* nothing is reported and the average stays the default empty Spectrum.
C6_EmptyAverageSkipped ==
    (phase \in {"gui", "done"} /\ frame >= 1 /\ plots = <<>>) =>
        /\ avg_plot = DefaultPlotData
        /\ result # "err"
        /\ stderr = <<>>

C6_Witness == phase = "gui" /\ frame >= 1 /\ plots = <<>> /\ avg_plot = DefaultPlotData

\* C7: a file that is neither .wav nor .f ends the run with an error value,
\* not with a success result.
C7_UnsupportedIsError ==
    (/\ phase = "done" /\ pos < Len(folder)
     /\ ~IsWav(folder[pos + 1]) /\ ~IsF(folder[pos + 1])) => result = "err"

\* C8: the transform of N >= 1 samples has floor(N/2) frequencies and
\* floor(N/2) magnitudes, at every sample rate.
C8_TransformLength ==
    \A k \in 1..Len(plots) :
        (FromWav(k) /\ SampleCount(k) >= 1) =>
            /\ Len(plots[k].freqs) = SampleCount(k) \div 2
            /\ Len(plots[k].amplitudes) = SampleCount(k) \div 2

C8_Witness ==
    \E k \in 1..Len(plots) :
        FromWav(k) /\ SampleCount(k) = 5 /\ Len(plots[k].amplitudes) = 2

\* C9 (as claimed): the transform of an empty sample sequence fails instead
\* of returning a Spectrum.
C9_EmptySignalFails ==
    \A k \in 1..Len(plots) : FromWav(k) => SampleCount(k) # 0

\* C9 (amended): the transform of an empty sample sequence returns a Spectrum
\* with no bins, labelled with the file's path, and the scan goes on; a .wav
\* file ends the run with an error only when it cannot be read.
C9_EmptySignalEmptySpectrum ==
    /\ \A k \in 1..Len(plots) :
          (FromWav(k) /\ SampleCount(k) = 0) =>
              plots[k] = PlotData(<<>>, <<>>, folder[k].path)
    /\ (/\ phase = "done" /\ result = "err" /\ pos < Len(folder)
        /\ IsWav(folder[pos + 1])) => ~folder[pos + 1].readable

C9_Witness ==
    \E k \in 1..Len(plots) :
        FromWav(k) /\ SampleCount(k) = 0 /\ plots[k].freqs = <<>> /\ phase = "gui"

\* C10: for N >= 2 samples at a positive rate sr, bin i (0 <= i < floor(N/2))
\* is at frequency i * sr / N: bin 0 at 0, strictly increasing, and
\* i * 1000 for N = 8, sr = 8000.
C10_BinFrequency ==
    \A k \in 1..Len(plots) :
        (FromWav(k) /\ SampleCount(k) >= 2 /\ folder[k].rate > 0) =>
            LET n == SampleCount(k)
                sr == folder[k].rate
                f == plots[k].freqs
            IN  /\ \A i \in 0..(n \div 2 - 1) :
                      /\ i + 1 \in DOMAIN f
                      /\ f[i + 1][1] * n = i * sr * f[i + 1][2]
                      /\ (n = 8 /\ sr = 8000) => f[i + 1] = FromInt(i * 1000)
                /\ f[1] = FromInt(0)
                /\ \A i \in 1..(Len(f) - 1) : LtQ(f[i], f[i + 1])

C10_Witness ==
    \E k \in 1..Len(plots) :
        /\ FromWav(k) /\ SampleCount(k) = 8 /\ folder[k].rate = 8000
        /\ plots[k].freqs = <<FromInt(0), FromInt(1000), FromInt(2000), FromInt(3000)>>

====
